---------------------------- MODULE Spec2Model ----------------------------
(***************************************************************************)
(* Model of src/main.py: the traffic ETL pipeline                          *)
(*   generate_synthetic_traffic_data -> transform_traffic_data ->          *)
(*   load_data_to_mysql, driven by main.                                   *)
(*                                                                         *)
(* Numbers.  A cell of a numeric column is a record [nan, val]: pandas     *)
(* stores a missing value as the float NaN, for which every comparison is  *)
(* false.  Speeds, which are floats in the program, are integers here.     *)
(* Timestamps.  A Python datetime is a record of its calendar fields, the  *)
(* text of a CSV cell is the tuple <<y, mo, d, h, mi>> of the fields as    *)
(* written, and a pandas Timestamp is its count of minutes since           *)
(* 1970-01-01 00:00, as datetime64 counts from the epoch.                  *)
(***************************************************************************)
EXTENDS Integers, Sequences, FiniteSets, TLC

VARIABLES
    pc,             \* position of main: the statement to run next
    run,            \* number of the pipeline run (process start) in progress
    num_rows,       \* generate_synthetic_traffic_data's num_rows
    raw_df,         \* the batch handed to transform_traffic_data, as handed
    transformed_df, \* the batch transform_traffic_data returned
    raised,         \* the exception that ended the run, or "none"
    engine,         \* load_data_to_mysql: its engine, "none" until created
    locations,      \* persisted table 'locations'
    traffic_data,   \* persisted table 'traffic_data'
    report,         \* what load_data_to_mysql printed last in this run
    loads           \* ghost: the table writes attempted in this run, in order

vars == <<pc, run, num_rows, raw_df, transformed_df, raised, engine,
          locations, traffic_data, report, loads>>

(***************************************************************************)
(* Bounds of the model.                                                    *)
(***************************************************************************)
MaxLen == 3         \* rows of a batch given to the Engine (Spec)
MaxRowsV == 2       \* rows of a batch given to the Engine (SpecRows)
MaxRowsC == 2       \* rows of a batch given to the Engine (SpecClassify)
NumRows == 51       \* num_rows of a generated batch (SpecGen)
MaxRowsP == 1       \* num_rows of a generated batch (SpecPipeline)
MaxRuns == 2        \* pipeline runs in a behaviour (SpecPipeline)

(***************************************************************************)
(* Floats with NaN.                                                        *)
(***************************************************************************)
NaN == [nan |-> TRUE, val |-> 0]
F(v) == [nan |-> FALSE, val |-> v]
IsNaN(x) == x.nan

\* x < y and x > y on floats: false as soon as one side is NaN
Lt(x, y) == ~x.nan /\ ~y.nan /\ x.val < y.val
Gt(x, y) == Lt(y, x)

\* Python's builtin min(a, b): b if b < a, else a
PyMin(a, b) == IF Lt(b, a) THEN b ELSE a
\* Python's builtin max(a, b): b if b > a, else a
PyMax(a, b) == IF Gt(b, a) THEN b ELSE a

(***************************************************************************)
(* Calendar arithmetic (proleptic Gregorian), as datetime and pandas do it.*)
(***************************************************************************)
IsLeap(y) == (y % 4 = 0 /\ y % 100 # 0) \/ y % 400 = 0

DaysInMonth(y, m) ==
    IF m = 2 THEN (IF IsLeap(y) THEN 29 ELSE 28)
    ELSE IF m \in {4, 6, 9, 11} THEN 30 ELSE 31

\* days from 1970-01-01 to the civil date y-m-d
DaysFromCivil(y, m, d) ==
    LET yy  == IF m <= 2 THEN y - 1 ELSE y
        era == yy \div 400
        yoe == yy - era * 400
        mp  == IF m > 2 THEN m - 3 ELSE m + 9
        doy == (153 * mp + 2) \div 5 + d - 1
        doe == yoe * 365 + yoe \div 4 - yoe \div 100 + doy
    IN  era * 146097 + doe - 719468

\* the civil date <<y, m, d>> of a count of days from 1970-01-01
CivilFromDays(z) ==
    LET zz  == z + 719468
        era == zz \div 146097
        doe == zz - era * 146097
        yoe == (doe - doe \div 1460 + doe \div 36524 - doe \div 146096) \div 365
        doy == doe - (365 * yoe + yoe \div 4 - yoe \div 100)
        mp  == (5 * doy + 2) \div 153
        d   == doy - (153 * mp + 2) \div 5 + 1
        m   == IF mp < 10 THEN mp + 3 ELSE mp - 9
        y   == yoe + era * 400
    IN  <<IF m <= 2 THEN y + 1 ELSE y, m, d>>

\* datetime(y, mo, d, h, mi)
Datetime(y, mo, d, h, mi) ==
    [year |-> y, month |-> mo, day |-> d, hour |-> h, minute |-> mi]

EpochMinutes(dt) ==
    DaysFromCivil(dt.year, dt.month, dt.day) * 1440 + dt.hour * 60 + dt.minute

FromEpochMinutes(t) ==
    LET c == CivilFromDays(t \div 1440)
    IN  Datetime(c[1], c[2], c[3], (t % 1440) \div 60, t % 60)

\* dt + timedelta(minutes = n)
AddMinutes(dt, n) == FromEpochMinutes(EpochMinutes(dt) + n)

\* the text to_csv writes for a datetime, "YYYY-MM-DD HH:MM:00", by its fields
FormatTimestamp(dt) == <<dt.year, dt.month, dt.day, dt.hour, dt.minute>>

\* whether pd.to_datetime can parse the text of a timestamp cell
Parsable(txt) ==
    /\ txt[2] \in 1..12
    /\ txt[3] \in 1..DaysInMonth(txt[1], txt[2])
    /\ txt[4] \in 0..23
    /\ txt[5] \in 0..59

\* pd.to_datetime of one parsable cell: the Timestamp, minutes from the epoch
ToDatetime(txt) ==
    EpochMinutes(Datetime(txt[1], txt[2], txt[3], txt[4], txt[5]))

\* Series.dt.hour, Series.dt.dayofweek (Monday = 0), Series.dt.day_name()
HourOf(t) == (t % 1440) \div 60
DayOfWeek(t) == ((t \div 1440) + 3) % 7
DayNames ==
    <<"Monday", "Tuesday", "Wednesday", "Thursday", "Friday", "Saturday", "Sunday">>
DayName(t) == DayNames[DayOfWeek(t) + 1]

(***************************************************************************)
(* transform_traffic_data                                                  *)
(***************************************************************************)
Column(df, name) == [i \in 1..Len(df) |-> df[i][name]]

\* the cells 1..i of col, each missing one replaced by the nearest valid cell
\* after it; carry is the nearest valid cell after position i, NaN if none
RECURSIVE BackFill(_, _, _)
BackFill(col, i, carry) ==
    IF i = 0 THEN <<>>
    ELSE LET v == IF IsNaN(col[i]) THEN carry ELSE col[i]
         IN  Append(BackFill(col, i - 1, v), v)

\* the cells i..Len(col) of col, each missing one replaced by the nearest
\* valid cell before it; carry is the nearest valid cell before position i
RECURSIVE ForwardFill(_, _, _)
ForwardFill(col, i, carry) ==
    IF i > Len(col) THEN <<>>
    ELSE LET v == IF IsNaN(col[i]) THEN carry ELSE col[i]
         IN  <<v>> \o ForwardFill(col, i + 1, v)

\* Series.bfill(): a missing value takes the next valid observation
bfill(col) == BackFill(col, Len(col), NaN)

\* Series.ffill(): a missing value takes the last valid observation
ffill(col) == ForwardFill(col, 1, NaN)

\* mutants: the fills in the other order; the backward fill alone
ImputeForwardFirst(col) == bfill(ffill(col))
ImputeBackwardOnly(col) == bfill(col)

\* df[c].bfill().ffill()
Impute(col) == ffill(bfill(col))

SpeedCap == 120

\* mutant: the speed clamped from below as well
CapSpeedClamped(x) == PyMax(PyMin(x, F(SpeedCap)), F(5))

\* lambda x: min(x, 120)
CapSpeed(x) == PyMin(x, F(SpeedCap))

CongestedCount == 300
CongestedSpeed == 20
ModerateCount == 150
ModerateSpeed == 40

\* mutant: the congested threshold met at 300 vehicles
categorize_traffic_inclusive(row) ==
    LET speed == row.average_speed
        count == row.vehicle_count
    IN  IF ~Lt(count, F(CongestedCount)) /\ ~IsNaN(count) /\ Lt(speed, F(CongestedSpeed))
            THEN "congested"
        ELSE IF Gt(count, F(ModerateCount)) /\ Lt(speed, F(ModerateSpeed))
            THEN "moderate"
        ELSE "low"

categorize_traffic(row) ==
    LET speed == row.average_speed
        count == row.vehicle_count
    IN  IF Gt(count, F(CongestedCount)) /\ Lt(speed, F(CongestedSpeed))
            THEN "congested"
        ELSE IF Gt(count, F(ModerateCount)) /\ Lt(speed, F(ModerateSpeed))
            THEN "moderate"
        ELSE "low"

\* pd.to_datetime(df['timestamp']) raises when a cell cannot be parsed
ToDatetimeRaises(df) == \E i \in 1..Len(df) : ~Parsable(df[i].timestamp)

\* mutant: rows with a missing value are dropped (dropna) instead of filled
transform_dropna(df) ==
    LET Complete(row) == ~IsNaN(row.vehicle_count) /\ ~IsNaN(row.average_speed)
        kept == SelectSeq(df, Complete)
    IN  [i \in 1..Len(kept) |->
            LET ts      == ToDatetime(kept[i].timestamp)
                cleaned == [timestamp     |-> ts,
                            location_id   |-> kept[i].location_id,
                            vehicle_count |-> kept[i].vehicle_count,
                            average_speed |-> CapSpeed(kept[i].average_speed),
                            hour_of_day   |-> HourOf(ts),
                            day_of_week   |-> DayName(ts),
                            is_weekend    |-> DayOfWeek(ts) >= 5]
            IN  ("traffic_category" :> categorize_traffic(cleaned)) @@ cleaned]

\* the value transform_traffic_data returns when it does not raise
transform_traffic_data(df) ==
    LET count == Impute(Column(df, "vehicle_count"))
        fill  == Impute(Column(df, "average_speed"))
    IN  [i \in 1..Len(df) |->
            LET ts      == ToDatetime(df[i].timestamp)
                cleaned == [timestamp     |-> ts,
                            location_id   |-> df[i].location_id,
                            vehicle_count |-> count[i],
                            average_speed |-> CapSpeed(fill[i]),
                            hour_of_day   |-> HourOf(ts),
                            day_of_week   |-> DayName(ts),
                            is_weekend    |-> DayOfWeek(ts) >= 5]
            IN  ("traffic_category" :> categorize_traffic(cleaned)) @@ cleaned]

(***************************************************************************)
(* generate_synthetic_traffic_data                                         *)
(***************************************************************************)
\* start_date = datetime(2023, 10, 1)
start_date == Datetime(2023, 10, 1, 0, 0)

IntervalMinutes == 15


\* if 7 <= h <= 9 or 16 <= h <= 18
IsPeak(h) == (7 <= h /\ h <= 9) \/ (16 <= h /\ h <= 18)

\* int(base_count * m), the multiplier m given in hundredths
PeakCount(base_count, m) == (base_count * m) \div 100

HighTraffic == 200
SpeedFloor == 5

\* max(5, base_speed - dec)
SlowedSpeed(base_speed, dec) == PyMax(F(SpeedFloor), F(base_speed - dec)).val

\* the draws np.random makes for one row, taken at the ends of their ranges:
\* choice(range(1, 11)), randint(50, 200), uniform(1.5, 2.5) in hundredths,
\* uniform(30, 80), uniform(10, 40)
DrawSpace ==
    [loc : {1, 10}, base_count : {50, 199}, mult : {249},
     base_speed : {30, 79}, dec : {39}]

\* the streams of draws explored for a batch of n rows: one per row, here
\* the streams that repeat one row's draws
RngStreams(n) == {[i \in 1..n |-> d] : d \in DrawSpace}

\* Python's round(num / den): to the nearest integer, a tie to the even one
RoundHalfEven(num, den) ==
    LET q == num \div den
        r == num % den
    IN  IF 2 * r < den THEN q
        ELSE IF 2 * r > den THEN q + 1
        ELSE IF q % 2 = 0 THEN q ELSE q + 1

FracPercent == 1

\* df.sample(frac=0.01) draws round(0.01 * len(df)) rows without replacement
SampleSize(n) == RoundHalfEven(n * FracPercent, 100)

\* the subsets of 1..n with k elements
RECURSIVE KSubsets(_, _)
KSubsets(n, k) ==
    IF k = 0 THEN {{}}
    ELSE IF n < k THEN {}
    ELSE KSubsets(n - 1, k) \cup {S \cup {n} : S \in KSubsets(n - 1, k - 1)}

\* the DataFrame built at lines 21-60: draws[i] are the draws of row i,
\* noCount and noSpeed the sampled rows whose field is set to NaN
GenerateFrame(n, draws, noCount, noSpeed) ==
    [i \in 1..n |->
        LET ts    == AddMinutes(start_date, IntervalMinutes * (i - 1))
            count == IF IsPeak(ts.hour)
                         THEN PeakCount(draws[i].base_count, draws[i].mult)
                         ELSE draws[i].base_count
            speed == IF count > HighTraffic
                         THEN SlowedSpeed(draws[i].base_speed, draws[i].dec)
                         ELSE draws[i].base_speed
        IN  [timestamp     |-> ts,
             location_id   |-> draws[i].loc,
             vehicle_count |-> IF i \in noCount THEN NaN ELSE F(count),
             average_speed |-> IF i \in noSpeed THEN NaN ELSE F(speed)]]

\* a numeric cell of the CSV file: an empty field for NaN, else the number
CsvCell(x) == IF IsNaN(x) THEN <<>> ELSE <<x.val>>
ReadCell(c) == IF c = <<>> THEN NaN ELSE F(c[1])

\* df.to_csv(filename, index=False)
to_csv(df) ==
    [i \in 1..Len(df) |->
        LET row == df[i]
        IN  [timestamp     |-> FormatTimestamp(row.timestamp),
             location_id   |-> row.location_id,
             vehicle_count |-> CsvCell(row.vehicle_count),
             average_speed |-> CsvCell(row.average_speed)]]

\* pd.read_csv(filename): the timestamp column stays text
read_csv(file) ==
    [i \in 1..Len(file) |->
        LET line == file[i]
        IN  [timestamp     |-> line.timestamp,
             location_id   |-> line.location_id,
             vehicle_count |-> ReadCell(line.vehicle_count),
             average_speed |-> ReadCell(line.average_speed)]]

\* what generate_synthetic_traffic_data returns
generate_synthetic_traffic_data(n, draws, noCount, noSpeed) ==
    read_csv(to_csv(GenerateFrame(n, draws, noCount, noSpeed)))

(***************************************************************************)
(* load_data_to_mysql                                                      *)
(***************************************************************************)
AreaLabels == {"North", "South", "East", "West"}

\* mutant: range(1, 10)
LocationIdsShort == 1..9

\* range(1, 11)
LocationIds == 1..10

AreaPeriod == 1     \* bound: the area draws of a run repeat with this period

\* the draws np.random.choice makes for the ten area cells
AreaStreams ==
    {[i \in LocationIds |-> t[((i - 1) % AreaPeriod) + 1]] :
        t \in [1..AreaPeriod -> AreaLabels]}

\* locations_df, lines 133-137
LocationsFrame(areas) ==
    [i \in LocationIds |->
        [location_id |-> i,
         street_name |-> "Street " \o ToString(i),
         area        |-> "Area " \o areas[i]]]

\* a float cell as to_sql stores it: NULL for NaN
SqlCell(x) == IF IsNaN(x) THEN <<>> ELSE <<x.val>>

\* a row of the transformed frame as a row of table traffic_data
SqlRow(row) ==
    [timestamp        |-> FromEpochMinutes(row.timestamp),
     location_id      |-> row.location_id,
     vehicle_count    |-> SqlCell(row.vehicle_count),
     average_speed    |-> SqlCell(row.average_speed),
     hour_of_day      |-> row.hour_of_day,
     day_of_week      |-> row.day_of_week,
     is_weekend       |-> IF row.is_weekend THEN 1 ELSE 0,
     traffic_category |-> row.traffic_category]

\* a table of the store: whether it exists, its rows, and the run that
\* changed it last
NoTable == [exists |-> FALSE, run |-> 0, rows |-> <<>>]

\* mutant: if_exists='append'
to_sql_append(old, rows, r) ==
    [exists |-> TRUE, run |-> r, rows |-> old.rows \o rows]

\* frame.to_sql(name, if_exists='replace'): the table is dropped and created
\* again from the frame
to_sql_replace(old, rows, r) == [exists |-> TRUE, run |-> r, rows |-> rows]

\* a to_sql that raises: before it touched the table (no connection, bad
\* credentials), after it dropped the old one, or after it created the new
\* one and before the rows were committed
to_sql_failed(old, r) ==
    {old,
     [exists |-> FALSE, run |-> r, rows |-> <<>>],
     [exists |-> TRUE, run |-> r, rows |-> <<>>]}

(***************************************************************************)
(* main, one step per call                                                 *)
(***************************************************************************)
\* mutant: main goes on to the next phase after an exception
PropagateSwallowed(exc) ==
    /\ pc' = "load"
    /\ raised' = exc

\* an exception no handler catches ends main where it is raised
Propagate(exc) ==
    /\ pc' = "aborted"
    /\ raised' = exc

\* line 169: raw_df = generate_synthetic_traffic_data()
MainGenerate ==
    /\ pc = "generate"
    /\ \/ \E draws \in RngStreams(num_rows) :
            \E noCount \in KSubsets(num_rows, SampleSize(num_rows)) :
              \E noSpeed \in KSubsets(num_rows, SampleSize(num_rows)) :
                /\ raw_df' = generate_synthetic_traffic_data(num_rows, draws, noCount, noSpeed)
                /\ pc' = "transform"
                /\ UNCHANGED raised
       \/ \* the CSV file cannot be written or read back
          /\ Propagate("OSError")
          /\ UNCHANGED raw_df
    /\ UNCHANGED <<run, num_rows, transformed_df, engine, locations,
                   traffic_data, report, loads>>

\* line 174: transformed_df = transform_traffic_data(raw_df)
MainTransform ==
    /\ pc = "transform"
    /\ IF ToDatetimeRaises(raw_df)
          THEN /\ Propagate("ValueError")
               /\ UNCHANGED transformed_df
          ELSE /\ transformed_df' = transform_traffic_data(raw_df)
               /\ pc' = "load"
               /\ UNCHANGED raised
    /\ UNCHANGED <<run, num_rows, raw_df, engine, locations, traffic_data,
                   report, loads>>

\* lines 149-152: the handler of load_data_to_mysql prints and returns
Caught ==
    /\ report' = "error"
    /\ pc' = "exit"

\* line 130: engine = create_engine(connection_string); the engine connects
\* when it is first used, so a store that cannot be reached shows in to_sql
LoadCreateEngine ==
    /\ pc = "load"
    /\ engine' = "created"
    /\ pc' = "load_locations"
    /\ UNCHANGED <<run, num_rows, raw_df, transformed_df, raised, locations,
                   traffic_data, report, loads>>

\* lines 133-141: locations_df.to_sql('locations', ...)
LoadLocations ==
    /\ pc = "load_locations"
    /\ loads' = Append(loads, "locations")
    /\ \/ \E areas \in AreaStreams :
            /\ locations' = to_sql_replace(locations, LocationsFrame(areas), run)
            /\ pc' = "load_traffic"
            /\ UNCHANGED report
       \/ \E t \in to_sql_failed(locations, run) :
            /\ locations' = t
            /\ Caught
    /\ UNCHANGED <<run, num_rows, raw_df, transformed_df, raised, engine,
                   traffic_data>>

\* lines 144-147: df.to_sql('traffic_data', ...), then the success message
LoadTraffic ==
    /\ pc = "load_traffic"
    /\ loads' = Append(loads, "traffic_data")
    /\ \/ /\ traffic_data' =
                to_sql_replace(traffic_data,
                               [i \in 1..Len(transformed_df) |-> SqlRow(transformed_df[i])],
                               run)
          /\ report' = "success"
          /\ pc' = "exit"
       \/ \E t \in to_sql_failed(traffic_data, run) :
            /\ traffic_data' = t
            /\ Caught
    /\ UNCHANGED <<run, num_rows, raw_df, transformed_df, raised, engine,
                   locations>>

\* line 183: the script is started again; the store keeps its tables
StartRun ==
    /\ pc \in {"exit", "aborted"}
    /\ run < MaxRuns
    /\ run' = run + 1
    /\ pc' = "generate"
    /\ num_rows' \in 0..MaxRowsP
    /\ raw_df' = <<>>
    /\ transformed_df' = <<>>
    /\ raised' = "none"
    /\ engine' = "none"
    /\ report' = "none"
    /\ loads' = <<>>
    /\ UNCHANGED <<locations, traffic_data>>

(***************************************************************************)
(* Specifications                                                          *)
(***************************************************************************)
\* the batches of up to n rows with cells from the given sets
Batches(n, stamps, locs, counts, speeds) ==
    UNION {[1..k -> [timestamp : stamps, location_id : locs,
                     vehicle_count : counts, average_speed : speeds]] : k \in 0..n}

\* the text of the i-th timestamp of the 15-minute grid
GridText(i) == FormatTimestamp(AddMinutes(start_date, IntervalMinutes * (i - 1)))

\* a call of transform_traffic_data on the batch df
EngineCall(df) ==
    /\ pc = "transform"
    /\ run = 1
    /\ num_rows = Len(df)
    /\ raw_df = df
    /\ transformed_df = <<>>
    /\ raised = "none"
    /\ engine = "none"
    /\ locations = NoTable
    /\ traffic_data = NoTable
    /\ report = "none"
    /\ loads = <<>>

NextEngine == MainTransform

\* Spec: the Engine on batches with missing values and speeds around the cap
Init ==
    \E df \in Batches(MaxLen, {GridText(1)}, {1},
                      {NaN, F(80), F(350)}, {NaN, F(2), F(80), F(121)}) :
        EngineCall(df)

Spec == Init /\ [][NextEngine]_vars

\* SpecRows: the Engine on batches whose timestamps and location ids vary:
\* a Sunday, a Monday and an hour that does not exist; ids in and out of 1..10
InitRows ==
    \E df \in Batches(MaxRowsV,
                      {<<2023, 10, 1, 0, 15>>, <<2023, 10, 2, 7, 0>>, <<2023, 10, 1, 25, 0>>},
                      {1, 10, 11}, {NaN, F(80)}, {NaN, F(80)}) :
        EngineCall(df)

SpecRows == InitRows /\ [][NextEngine]_vars

\* SpecClassify: the Engine on batches whose values lie around the thresholds
InitClassify ==
    \E df \in Batches(MaxRowsC, {GridText(1)}, {1},
                      {NaN, F(100), F(150), F(151), F(200), F(300), F(350)},
                      {NaN, F(15), F(20), F(30), F(39), F(40), F(50)}) :
        EngineCall(df)

SpecClassify == InitClassify /\ [][NextEngine]_vars

\* main at its first statement, the store empty
MainStart(n) ==
    /\ pc = "generate"
    /\ run = 1
    /\ num_rows = n
    /\ raw_df = <<>>
    /\ transformed_df = <<>>
    /\ raised = "none"
    /\ engine = "none"
    /\ locations = NoTable
    /\ traffic_data = NoTable
    /\ report = "none"
    /\ loads = <<>>

\* SpecGen: Generator then Engine, on a batch long enough for sample(frac=0.01)
\* to take a row and for the timestamps to reach the morning peak
InitGen == MainStart(NumRows)

NextGen == MainGenerate \/ MainTransform

SpecGen == InitGen /\ [][NextGen]_vars

\* SpecPipeline: runs of main, one after the other, against one store
InitPipeline == \E n \in 0..MaxRowsP : MainStart(n)

NextPipeline ==
    \/ MainGenerate
    \/ MainTransform
    \/ LoadCreateEngine
    \/ LoadLocations
    \/ LoadTraffic
    \/ StartRun

SpecPipeline == InitPipeline /\ [][NextPipeline]_vars

(***************************************************************************)
(* Properties                                                              *)
(***************************************************************************)
\* transform_traffic_data has returned in this run
EngineDone == pc \in {"load", "load_locations", "load_traffic", "exit"}

Rows == 1..Len(transformed_df)

Missing(i, field) == raw_df[i][field].nan

\* a speed as the cap leaves it
AfterCap(x) == IF ~x.nan /\ x.val > 120 THEN F(120) ELSE x

\* the value of an input cell as it must show in the output row
Expected(j, field) ==
    IF field = "average_speed" THEN AfterCap(raw_df[j][field]) ELSE raw_df[j][field]

\* C1: every emitted row's traffic_category follows from its own cleaned
\* (vehicle_count, average_speed) by the rules in priority order: congested
\* if count > 300 and speed < 20, else moderate if count > 150 and speed < 40,
\* else low; the pinned pairs get the pinned categories, (300, 15) moderate;
\* two rows with the same pair get the same category.
C1_Classification ==
    EngineDone =>
        /\ \A i \in Rows :
              LET c == transformed_df[i].vehicle_count
                  s == transformed_df[i].average_speed
                  known == ~c.nan /\ ~s.nan
                  cat == transformed_df[i].traffic_category
              IN  /\ cat = IF known /\ c.val > 300 /\ s.val < 20 THEN "congested"
                           ELSE IF known /\ c.val > 150 /\ s.val < 40 THEN "moderate"
                           ELSE "low"
                  /\ (c = F(350) /\ s = F(15)) => cat = "congested"
                  /\ (c = F(200) /\ s = F(30)) => cat = "moderate"
                  /\ (c = F(100) /\ s = F(50)) => cat = "low"
                  /\ (c = F(151) /\ s = F(39)) => cat = "moderate"
                  /\ (c = F(300) /\ s = F(15)) => cat = "moderate"
        /\ \A i, j \in Rows :
              (/\ transformed_df[i].vehicle_count = transformed_df[j].vehicle_count
               /\ transformed_df[i].average_speed = transformed_df[j].average_speed)
              => transformed_df[i].traffic_category = transformed_df[j].traffic_category

\* a batch whose first row got its count 300 by imputation and is moderate at
\* speed 15, before a row with the same count that is low at speed 50
C1_Witness ==
    /\ EngineDone
    /\ Len(raw_df) = 2
    /\ Missing(1, "vehicle_count")
    /\ transformed_df[1].vehicle_count = F(300)
    /\ transformed_df[1].average_speed = F(15)
    /\ transformed_df[1].traffic_category = "moderate"
    /\ transformed_df[2].average_speed = F(50)
    /\ transformed_df[2].traffic_category = "low"

\* C2: in each of the two numeric columns, a cell that was not missing keeps
\* its value, a missing cell with a valid cell after it takes the nearest
\* such cell, and a missing cell with none after it takes the nearest valid
\* cell before it (speeds shown as the cap leaves them); [NaN, NaN, 80] and
\* [80, NaN, NaN] both become [80, 80, 80].
C2_Imputation ==
    EngineDone =>
        /\ \A field \in {"vehicle_count", "average_speed"} : \A i \in Rows :
              LET after  == {j \in Rows : j > i /\ ~Missing(j, field)}
                  before == {j \in Rows : j < i /\ ~Missing(j, field)}
                  got    == transformed_df[i][field]
              IN  /\ ~Missing(i, field) => got = Expected(i, field)
                  /\ (Missing(i, field) /\ after # {}) =>
                        got = Expected(CHOOSE j \in after : \A k \in after : j <= k, field)
                  /\ (Missing(i, field) /\ after = {} /\ before # {}) =>
                        got = Expected(CHOOSE j \in before : \A k \in before : j >= k, field)
        /\ \A field \in {"vehicle_count", "average_speed"} :
              Column(raw_df, field) \in {<<NaN, NaN, F(80)>>, <<F(80), NaN, NaN>>}
              => Column(transformed_df, field) = <<F(80), F(80), F(80)>>

\* a gap between two different counts is filled from the row after it, and a
\* trailing gap in the speeds from the row before it
C2_Witness ==
    /\ EngineDone
    /\ Column(raw_df, "vehicle_count") = <<F(80), NaN, F(350)>>
    /\ transformed_df[2].vehicle_count = F(350)
    /\ Column(raw_df, "average_speed") = <<F(2), F(80), NaN>>
    /\ transformed_df[3].average_speed = F(80)

\* C3: when a numeric column of a non-empty batch has no valid cell at all,
\* the Engine raises and returns no row.
C3_AllMissingRaises ==
    (/\ pc # "transform"
     /\ Len(raw_df) > 0
     /\ \E field \in {"vehicle_count", "average_speed"} :
           \A i \in 1..Len(raw_df) : Missing(i, field))
    => (raised # "none" /\ transformed_df = <<>>)

\* C4: in a run of main, every row the Engine returns for the generated batch
\* has a speed that is present and within 5..120 and a count that is present
\* and not negative.
C4_GeneratedRanges ==
    EngineDone =>
        \A i \in Rows :
            /\ ~transformed_df[i].average_speed.nan
            /\ 5 <= transformed_df[i].average_speed.val
            /\ transformed_df[i].average_speed.val <= 120
            /\ ~transformed_df[i].vehicle_count.nan
            /\ transformed_df[i].vehicle_count.val >= 0

\* the Generator blanked the count and the speed of the last row, a peak-hour
\* row elsewhere was slowed to the floor of 5, and the Engine filled both
C4_Witness ==
    /\ EngineDone
    /\ Len(raw_df) = num_rows
    /\ Missing(num_rows, "vehicle_count")
    /\ Missing(num_rows, "average_speed")
    /\ ~transformed_df[num_rows].vehicle_count.nan
    /\ ~transformed_df[num_rows].average_speed.nan
    /\ \E i \in Rows : /\ transformed_df[i].average_speed = F(5)
                       /\ transformed_df[i].vehicle_count.val > 200

\* C5: when the Engine returns, the output has the input's length and row i
\* carries the location_id and the timestamp of input row i.
C5_SameRowsSameOrder ==
    EngineDone =>
        /\ Len(transformed_df) = Len(raw_df)
        /\ \A i \in 1..Len(raw_df) :
              /\ i \in Rows
              /\ transformed_df[i].location_id = raw_df[i].location_id
              /\ FormatTimestamp(FromEpochMinutes(transformed_df[i].timestamp))
                    = raw_df[i].timestamp

\* two rows that differ in timestamp and location, the first with a missing
\* count, come out in the order they went in
C5_Witness ==
    /\ EngineDone
    /\ Len(raw_df) = 2
    /\ Missing(1, "vehicle_count")
    /\ raw_df[1].timestamp = <<2023, 10, 2, 7, 0>>
    /\ raw_df[2].timestamp = <<2023, 10, 1, 0, 15>>
    /\ transformed_df[1].location_id = 10
    /\ transformed_df[2].location_id = 1
    /\ transformed_df[1].hour_of_day = 7
    /\ transformed_df[2].is_weekend

\* C6: for a batch without missing values, each output count is the input
\* count and each output speed is the input speed, or 120 when that is above
\* 120; a speed below 5 is not raised.
C6_RoundTrip ==
    (/\ EngineDone
     /\ \A i \in 1..Len(raw_df) :
           ~Missing(i, "vehicle_count") /\ ~Missing(i, "average_speed"))
    => /\ Len(transformed_df) = Len(raw_df)
       /\ \A i \in Rows :
             /\ transformed_df[i].vehicle_count = raw_df[i].vehicle_count
             /\ transformed_df[i].average_speed =
                   IF raw_df[i].average_speed.val > 120 THEN F(120)
                   ELSE raw_df[i].average_speed

\* a complete batch with a speed of 121, cut to 120, and a speed of 2, kept
C6_Witness ==
    /\ EngineDone
    /\ Len(raw_df) = 2
    /\ \A i \in 1..2 : ~Missing(i, "vehicle_count")
    /\ raw_df[1].average_speed = F(121)
    /\ transformed_df[1].average_speed = F(120)
    /\ raw_df[2].average_speed = F(2)
    /\ transformed_df[2].average_speed = F(2)

\* C7: a batch with a location_id outside 1..10, or with a timestamp that
\* cannot be parsed, makes the Engine raise and return no row.
C7_InvalidRowRaises ==
    (/\ pc # "transform"
     /\ \E i \in 1..Len(raw_df) :
           \/ raw_df[i].location_id \notin 1..10
           \/ raw_df[i].timestamp[4] \notin 0..23)
    => (raised # "none" /\ transformed_df = <<>>)

\* the table is the one this run wrote
WrittenNow(table) == table.exists /\ table.run = run

LocationRowsOk ==
    /\ Len(locations.rows) = 10
    /\ \A i \in 1..Len(locations.rows) :
          /\ locations.rows[i].location_id = i
          /\ locations.rows[i].street_name = "Street " \o ToString(i)

\* the locations write of this run has returned
LocationsWritten == pc = "load_traffic" \/ Len(loads) = 2

C10_FailFast ==
    raised # "none" =>
        /\ pc = "aborted"
        /\ engine = "none"
        /\ report = "none"
        /\ loads = <<>>
        /\ locations.run < run
        /\ traffic_data.run < run

\* the second run aborted in the Generator; the tables are the first run's
C10_Witness ==
    /\ raised = "OSError"
    /\ run = 2
    /\ locations.exists /\ locations.run = 1
    /\ traffic_data.exists /\ traffic_data.run = 1
    /\ Len(traffic_data.rows) = 1

=============================================================================
